---- MODULE Spec2Model ----
(***************************************************************************)
(* Model of the instance manager (package instance): the filesystem the    *)
(* Manager works on, its three configured paths, and its operations        *)
(* CreateInstance, SwitchInstance, RestoreDefault, DeleteInstance,         *)
(* ListInstances, GetActiveInstance and UpdateConfig; of the terminal      *)
(* interface (package tui) that drives the Manager; and of the delete      *)
(* command of the command line.                                            *)
(*                                                                         *)
(* A path is a sequence of segments (the text between separators).  An     *)
(* instance name is the sequence of segments of the string the caller      *)
(* passed: "" is <<>>, "vanilla" is <<"vanilla">>, "vanilla/modded" is     *)
(* <<"vanilla","modded">>.  Two names are the same string exactly when     *)
(* the sequences are equal.                                                *)
(***************************************************************************)
EXTENDS Integers, Sequences, FiniteSets, TLC

VARIABLES fs, InstancesPath, MinecraftPath, BackupPath, configFile,
          last, nCreate, nConfig, nFail,
          orig, pre, displaced, chain, scen, sw, tui

vars == <<fs, InstancesPath, MinecraftPath, BackupPath, configFile,
          last, nCreate, nConfig, nFail,
          orig, pre, displaced, chain, scen, sw, tui>>

(***************************************************************************)
(* Bounds of the model.                                                    *)
(***************************************************************************)
\* successful CreateInstance calls in one behaviour
MaxCreates == 2
\* UpdateConfig calls in one behaviour that moves the game directory and the
\* backup slot
MaxConfigUpdates == 3
\* UpdateConfig calls in one behaviour that moves the instances root
MaxRootUpdates == 2
\* os.Symlink failures injected in one behaviour
MaxSymlinkFailures == 1
\* SwitchInstance invocations of the two concurrent processes in one
\* behaviour
MaxRaceSwitches == 3
\* longest path, in segments, the filesystem accepts (PATH_MAX)
MaxPathLen == 6

(***************************************************************************)
(* Paths and names.                                                        *)
(***************************************************************************)
HomeDir == <<"home">>
AppDir == <<"app">>
ConfigFile == <<"app", "config.json">>
DefaultInstancesPath == <<"app", "instances">>
DefaultBackupPath == <<"app", "backup">>
DefaultMinecraftPath == <<"home", ".minecraft">>

\* another game directory, another instances root and another backup slot
\* the user may configure, as typed (with a leading ~)
AltMinecraftPath == <<"~", "mc2">>
AltInstancesPath == <<"~", "custom">>
AltBackupPath == <<"~", "bk2">>

\* the names callers pass
EmptyName == <<>>
Vanilla == <<"vanilla">>
Modded == <<"modded">>
Nested == <<"vanilla", "modded">>
DefaultName == <<"default">>
\* a name below a regular file of an instance seeded from the game directory
UnderFile == <<"vanilla", "mods", "x.jar", "y">>
\* the names given in the runs without and with configuration updates
CoreNames == {Vanilla, Modded, Nested}
ConfigNames == {Vanilla, Modded}
\* the names in the runs about the empty name, the name "default" and a name
\* with no directory
EdgeNames == {EmptyName, DefaultName, Vanilla, UnderFile}

essentialDirs == <<"mods", "config", "saves", "resourcepacks", "shaderpacks">>

\* every segment that can name a directory entry, in byte order
\* (os.ReadDir and sort.Strings order)
SegOrder == <<".DS_Store", ".minecraft", "backup", "bk2", "c.cfg", "config",
              "config.json", "custom", "default", "instances", "mc2", "modded",
              "mods", "note.txt", "options.txt", "readme.txt",
              "resourcepacks", "saves", "shaderpacks", "vanilla", "w1",
              "x.jar", "y">>

\* the keys that type a character into the name input; a typed text is the
\* sequence of its characters, in byte order " " < "Y" < "c" < ... < "y"
Runes == {" ", "Y", "c", "d", "n", "r", "y"}
RuneOrder == <<" ", "Y", "c", "d", "n", "r", "y">>
RuneRank(c) == CHOOSE i \in 1..Len(RuneOrder) : RuneOrder[i] = c
\* the longest text typed into the name input (textinput CharLimit is 50)
MaxInputLen == 1

\* strings.TrimSpace
RECURSIVE TrimLeft(_)
TrimLeft(s) == IF s # <<>> /\ Head(s) = " " THEN TrimLeft(Tail(s)) ELSE s
RECURSIVE TrimRight(_)
TrimRight(s) ==
    IF s # <<>> /\ s[Len(s)] = " " THEN TrimRight(SubSeq(s, 1, Len(s) - 1))
    ELSE s
TrimSpace(s) == TrimRight(TrimLeft(s))

\* the string spelled by a typed text
RECURSIVE Text(_)
Text(s) == IF s = <<>> THEN "" ELSE Head(s) \o Text(Tail(s))
\* byte-wise comparison of two typed texts
RECURSIVE TextLess(_, _)
TextLess(a, b) ==
    IF b = <<>> THEN FALSE
    ELSE IF a = <<>> THEN TRUE
    ELSE IF Head(a) = Head(b) THEN TextLess(Tail(a), Tail(b))
    ELSE RuneRank(Head(a)) < RuneRank(Head(b))

\* the names that can be typed, and the place of each among them
TypedTexts == UNION {[1..n -> Runes] : n \in 0..MaxInputLen}
TypedNames == {TrimSpace(t) : t \in TypedTexts} \ {<<>>}
TypedRank ==
    [s \in {Text(t) : t \in TypedNames} |->
        1 + Cardinality({u \in TypedNames :
                TextLess(u, CHOOSE t \in TypedNames : Text(t) = s)})]

\* the place of a segment in the order sort.Slice and os.ReadDir use: the
\* typed names in byte order, the other segments in the order of SegOrder
\* (no directory of the model holds segments of both kinds)
SegRank(s) ==
    IF s \in DOMAIN TypedRank THEN TypedRank[s]
    ELSE Cardinality(TypedNames)
         + (CHOOSE i \in 1..Len(SegOrder) : SegOrder[i] = s)
\* strings.HasSuffix(name, ".jar")
JarSegs == {"x.jar"}
\* strings.Contains(seg, ".git") || strings.Contains(seg, ".DS_Store")
SkipSegs == {".DS_Store"}

(***************************************************************************)
(* The filesystem: a function from the paths that exist to their nodes.    *)
(* The root <<>> always exists and is a directory.                         *)
(***************************************************************************)
DirNode == [kind |-> "dir", target |-> <<>>, data |-> ""]
FileNode(d) == [kind |-> "file", target |-> <<>>, data |-> d]
LinkNode(t) == [kind |-> "link", target |-> t, data |-> ""]

Ok(f) == [fs |-> f, err |-> "none"]
Fail(f, e) == [fs |-> f, err |-> e]

IsPrefix(p, q) == Len(p) <= Len(q) /\ SubSeq(q, 1, Len(p)) = p
Parent(p) == SubSeq(p, 1, Len(p) - 1)
\* filepath.Join(base, name) for a name whose segments are plain
\* (none is empty, "." or "..")
Join(base, name) == base \o name
\* filepath.Base of a non-empty path, as a name
Base(p) == <<p[Len(p)]>>

\* os.Lstat succeeds
Lexists(f, p) == p = <<>> \/ p \in DOMAIN f
NodeAt(f, p) == IF p = <<>> THEN DirNode ELSE f[p]
IsSymlink(f, p) == Lexists(f, p) /\ NodeAt(f, p).kind = "link"
IsRealDir(f, p) == Lexists(f, p) /\ NodeAt(f, p).kind = "dir"

\* the path os.Stat looks at: the final symlink followed (twice at most;
\* no operation of the Manager makes a link to a link)
Follow(f, p) ==
    IF IsSymlink(f, p)
    THEN LET t == NodeAt(f, p).target
         IN IF IsSymlink(f, t) THEN NodeAt(f, t).target ELSE t
    ELSE p
\* os.Stat succeeds
StatExists(f, p) == Lexists(f, Follow(f, p)) /\ ~IsSymlink(f, Follow(f, p))
\* a component before the last one is a regular file: the calls on p fail
\* with ENOTDIR
ThroughFile(f, p) ==
    \E q \in {SubSeq(p, 1, k) : k \in 1..(Len(p) - 1)} :
        Lexists(f, q) /\ NodeAt(f, q).kind = "file"
\* os.Stat fails with an error os.IsNotExist accepts (ENOENT, not ENOTDIR)
StatNotExist(f, p) == ~StatExists(f, p) /\ ~ThroughFile(f, Follow(f, p))
\* os.Stat succeeds and reports a directory
StatIsDir(f, p) == StatExists(f, p) /\ NodeAt(f, Follow(f, p)).kind = "dir"

\* the tree below p, with paths relative to p; "absent" when p does not exist
Subtree(f, p) ==
    IF ~Lexists(f, p) THEN [kind |-> "absent", tree |-> <<>>]
    ELSE [kind |-> NodeAt(f, p).kind,
          tree |-> LET S == {q \in DOMAIN f : IsPrefix(p, q)}
                   IN [r \in {SubSeq(q, Len(p) + 1, Len(q)) : q \in S} |->
                          NodeAt(f, p \o r)]]
Absent == [kind |-> "absent", tree |-> <<>>]

\* names of the entries of directory p
Children(f, p) ==
    {q[Len(q)] : q \in {q \in DOMAIN f : Len(q) = Len(p) + 1 /\ IsPrefix(p, q)}}

RECURSIVE SortSegs(_)
SortSegs(S) ==
    IF S = {} THEN <<>>
    ELSE LET m == CHOOSE x \in S : \A y \in S : SegRank(x) <= SegRank(y)
         IN <<m>> \o SortSegs(S \ {m})

\* os.ReadDir: the entries of p sorted by name; fails when p is no directory
ReadDirOk(f, p) == StatIsDir(f, p)
ReadDir(f, p) == SortSegs(Children(f, Follow(f, p)))

(***************************************************************************)
(* The filesystem calls the Manager makes.  Each returns the filesystem    *)
(* after the call and "none" or an error.                                  *)
(***************************************************************************)
Prefixes(p) == {SubSeq(p, 1, k) : k \in 1..Len(p)}

\* os.MkdirAll: creates p and every missing parent; fails on the empty
\* string (<<>> as an argument is the empty string), when a component
\* exists and is no directory, or when the path is longer than the
\* filesystem accepts (the parents that fit have been created by then)
MkdirAll(f, p) ==
    IF p = <<>> \/ \E q \in Prefixes(p) : Lexists(f, q) /\ ~StatIsDir(f, q)
    THEN Fail(f, "io")
    ELSE LET fit == {q \in Prefixes(p) : Len(q) <= MaxPathLen}
             g == [q \in DOMAIN f \cup fit |->
                      IF q \in DOMAIN f THEN f[q] ELSE DirNode]
         IN IF Len(p) > MaxPathLen THEN Fail(g, "io") ELSE Ok(g)

\* os.RemoveAll: removes p and everything below it; no error when absent,
\* an error when p lies below a regular file
RemoveAll(f, p) ==
    IF ThroughFile(f, p) THEN Fail(f, "io")
    ELSE Ok([q \in {q \in DOMAIN f : ~IsPrefix(p, q)} |-> f[q]])

\* os.Remove: removes a file, a symlink or an empty directory
Remove(f, p) ==
    IF p = <<>> \/ ~Lexists(f, p) \/ Children(f, p) # {}
    THEN Fail(f, "io")
    ELSE Ok([q \in DOMAIN f \ {p} |-> f[q]])

\* os.Rename: refuses an existing directory as the new name (unless it is
\* the old one); otherwise rename(2), which moves the whole tree
Rename(f, old, new) ==
    IF old = <<>> \/ new = <<>> \/ ~Lexists(f, old) THEN Fail(f, "io")
    ELSE IF old = new THEN Ok(f)
    ELSE IF IsRealDir(f, new) THEN Fail(f, "io")
    ELSE IF ~IsRealDir(f, Parent(new)) THEN Fail(f, "io")
    ELSE IF IsPrefix(old, new) THEN Fail(f, "io")
    ELSE IF Lexists(f, new) /\ IsRealDir(f, old) THEN Fail(f, "io")
    ELSE LET moved == {q \in DOMAIN f : IsPrefix(old, q)}
             kept == {q \in DOMAIN f : ~IsPrefix(old, q) /\ q # new}
             dest(q) == new \o SubSeq(q, Len(old) + 1, Len(q))
             back(r) == old \o SubSeq(r, Len(new) + 1, Len(r))
         IN Ok([r \in kept \cup {dest(q) : q \in moved} |->
                   IF IsPrefix(new, r) THEN f[back(r)] ELSE f[r]])

\* os.Symlink: fails when the link path exists or its parent is missing;
\* allowed = FALSE is the platform refusing to create symlinks
Symlink(f, target, link, allowed) ==
    IF ~allowed \/ link = <<>> \/ Lexists(f, link)
       \/ ~StatIsDir(f, Parent(link))
    THEN Fail(f, "io")
    ELSE Ok([q \in DOMAIN f \cup {link} |->
                IF q = link THEN LinkNode(target) ELSE f[q]])

\* os.ReadFile succeeds: the path, symlink followed, is a regular file
ReadFileOk(f, p) == StatExists(f, p) /\ NodeAt(f, Follow(f, p)).kind = "file"

\* os.WriteFile: creates or truncates; fails on a directory or a missing parent
WriteFile(f, p, d) ==
    IF p = <<>> \/ Len(p) > MaxPathLen \/ ~StatIsDir(f, Parent(p))
       \/ (Lexists(f, p) /\ NodeAt(f, p).kind # "file")
    THEN Fail(f, "io")
    ELSE Ok([q \in DOMAIN f \cup {p} |-> IF q = p THEN FileNode(d) ELSE f[q]])

copyFile(f, src, dst) ==
    IF ~ReadFileOk(f, src) THEN Fail(f, "io")
    ELSE WriteFile(f, dst, NodeAt(f, Follow(f, src)).data)

\* strings.Contains(relPath, ".git") || strings.Contains(relPath, ".DS_Store")
SkipRel(rel) == \E i \in 1..Len(rel) : rel[i] \in SkipSegs

\* copyDir: filepath.WalkDir over src in lexical order; the callback is run
\* on a directory before its entries are read, so what the copy creates
\* below src is walked too
RECURSIVE walkDir(_, _, _, _), walkEntries(_, _, _, _, _)
walkDir(f, src, dst, path) ==
    LET rel == SubSeq(path, Len(src) + 1, Len(path))
        dstPath == Join(dst, rel)
        isDir == NodeAt(f, path).kind = "dir"
        r == IF isDir THEN MkdirAll(f, dstPath)
             ELSE IF SkipRel(rel) THEN Ok(f)
             ELSE copyFile(f, path, dstPath)
    IN IF r.err # "none" \/ ~isDir THEN r
       ELSE walkEntries(r.fs, src, dst, path, SortSegs(Children(r.fs, path)))
walkEntries(f, src, dst, path, names) ==
    IF names = <<>> THEN Ok(f)
    ELSE LET r == walkDir(f, src, dst, Append(path, Head(names)))
         IN IF r.err # "none" THEN r
            ELSE walkEntries(r.fs, src, dst, path, Tail(names))

copyDir(f, src, dst) ==
    IF ~Lexists(f, src) THEN Fail(f, "io") ELSE walkDir(f, src, dst, src)

RECURSIVE mkdirEach(_, _, _)
mkdirEach(f, base, dirs) ==
    IF dirs = <<>> THEN Ok(f)
    ELSE LET r == MkdirAll(f, Join(base, <<Head(dirs)>>))
         IN IF r.err # "none" THEN r ELSE mkdirEach(r.fs, base, Tail(dirs))

(***************************************************************************)
(* The Manager's operations, as functions of the filesystem and the paths. *)
(***************************************************************************)
expandPath(p) ==
    IF p = <<>> THEN p
    ELSE IF Head(p) = "~" THEN Join(HomeDir, Tail(p))
    ELSE p

GetActiveInstance(f, mp) ==
    IF IsSymlink(f, mp) THEN Base(NodeAt(f, mp).target) ELSE DefaultName

\* seeding that copies a real game directory only and nothing when an
\* instance is active
seedInstance_skipsSymlink(f, mp, instancePath) ==
    IF ~Lexists(f, mp) \/ IsSymlink(f, mp) THEN Ok(f)
    ELSE copyDir(f, mp, instancePath)

\* seeding that copies nothing
seedInstance_copiesNothing(f, mp, instancePath) == Ok(f)

\* the seeding step of CreateInstance
seedInstance(f, mp, instancePath) ==
    IF ~Lexists(f, mp) THEN Ok(f)
    ELSE IF IsSymlink(f, mp) THEN copyDir(f, NodeAt(f, mp).target, instancePath)
    ELSE copyDir(f, mp, instancePath)

\* CreateInstance that leaves the instance as the seeding made it
CreateInstance_noEssentialDirs(f, ip, mp, name) ==
    LET instancePath == Join(ip, name)
        r1 == MkdirAll(f, ip)
        r2 == MkdirAll(r1.fs, instancePath)
        r3 == seedInstance(r2.fs, mp, instancePath)
    IN IF name = EmptyName THEN Fail(f, "empty")
       ELSE IF StatExists(f, instancePath) THEN Fail(f, "exists")
       ELSE IF r1.err # "none" THEN Fail(r1.fs, "io")
       ELSE IF r2.err # "none" THEN Fail(r2.fs, "io")
       ELSE IF r3.err # "none" THEN Fail(r3.fs, "io")
       ELSE Ok(r3.fs)

\* CreateInstance that seeds an instance again when it exists already
CreateInstance_overwrites(f, ip, mp, name) ==
    LET instancePath == Join(ip, name)
        r1 == MkdirAll(f, ip)
        r2 == MkdirAll(r1.fs, instancePath)
        r3 == seedInstance(r2.fs, mp, instancePath)
        r4 == mkdirEach(r3.fs, instancePath, essentialDirs)
    IN IF name = EmptyName THEN Fail(f, "empty")
       ELSE IF r1.err # "none" THEN Fail(r1.fs, "io")
       ELSE IF r2.err # "none" THEN Fail(r2.fs, "io")
       ELSE IF r3.err # "none" THEN Fail(r3.fs, "io")
       ELSE IF r4.err # "none" THEN Fail(r4.fs, "io")
       ELSE Ok(r4.fs)

CreateInstance(f, ip, mp, name) ==
    LET instancePath == Join(ip, name)
        r1 == MkdirAll(f, ip)
        r2 == MkdirAll(r1.fs, instancePath)
        r3 == seedInstance(r2.fs, mp, instancePath)
        r4 == mkdirEach(r3.fs, instancePath, essentialDirs)
    IN IF name = EmptyName THEN Fail(f, "empty")
       ELSE IF StatExists(f, instancePath) THEN Fail(f, "exists")
       ELSE IF r1.err # "none" THEN Fail(r1.fs, "io")
       ELSE IF r2.err # "none" THEN Fail(r2.fs, "io")
       ELSE IF r3.err # "none" THEN Fail(r3.fs, "io")
       ELSE IF r4.err # "none" THEN Fail(r4.fs, "io")
       ELSE Ok(r4.fs)

\* displaceLive clearing the backup slot also when it removes a symlink
displaceLive_clearsBackup(f, mp, bp) ==
    IF ~Lexists(f, mp) THEN Ok(f)
    ELSE LET r == RemoveAll(f, bp)
         IN IF r.err # "none" THEN r
            ELSE IF ~IsSymlink(f, mp) THEN Rename(r.fs, mp, bp)
            ELSE Remove(r.fs, mp)

\* displaceLive clearing the backup slot before it looks at the live path
displaceLive_clearsFirst(f, mp, bp) ==
    LET r == RemoveAll(f, bp)
    IN IF r.err # "none" THEN r
       ELSE IF ~Lexists(f, mp) THEN Ok(r.fs)
       ELSE IF ~IsSymlink(f, mp) THEN Rename(r.fs, mp, bp)
       ELSE Remove(r.fs, mp)

\* displaceLive removing the directory a symlink at the live path points at
\* together with the symlink
displaceLive_removesTarget(f, mp, bp) ==
    IF ~Lexists(f, mp) THEN Ok(f)
    ELSE IF ~IsSymlink(f, mp)
    THEN LET r == RemoveAll(f, bp)
         IN IF r.err # "none" THEN r ELSE Rename(r.fs, mp, bp)
    ELSE Remove(RemoveAll(f, Follow(f, mp)).fs, mp)

\* displaceLive keeping a backup that is already there and dropping the
\* live directory instead
displaceLive_keepsOldBackup(f, mp, bp) ==
    IF ~Lexists(f, mp) THEN Ok(f)
    ELSE IF ~IsSymlink(f, mp)
    THEN IF Lexists(f, bp) THEN RemoveAll(f, mp) ELSE Rename(f, mp, bp)
    ELSE Remove(f, mp)

\* the first half of SwitchInstance: what is at the live path is moved to
\* the backup slot (a real directory) or removed (a symlink)
displaceLive(f, mp, bp) ==
    IF ~Lexists(f, mp) THEN Ok(f)
    ELSE IF ~IsSymlink(f, mp)
    THEN LET r == RemoveAll(f, bp)
         IN IF r.err # "none" THEN r ELSE Rename(r.fs, mp, bp)
    ELSE Remove(f, mp)

\* switchStep clearing the backup slot after the rename instead of before
switchStep_clearsAfterRename(f, ip, mp, bp, name, at) ==
    LET instancePath == Join(ip, name)
        next(r, to) == IF r.err # "none"
                       THEN [fs |-> r.fs, pc |-> "done", err |-> "io"]
                       ELSE [fs |-> r.fs, pc |-> to, err |-> "none"]
    IN IF at = "idle"
       THEN IF name = EmptyName THEN [fs |-> f, pc |-> "done", err |-> "empty"]
            ELSE IF StatNotExist(f, instancePath)
            THEN [fs |-> f, pc |-> "done", err |-> "notfound"]
            ELSE [fs |-> f, pc |-> "lstat", err |-> "none"]
       ELSE IF at = "lstat"
       THEN IF ~Lexists(f, mp) THEN [fs |-> f, pc |-> "symlink", err |-> "none"]
            ELSE IF ~IsSymlink(f, mp)
            THEN [fs |-> f, pc |-> "rename", err |-> "none"]
            ELSE [fs |-> f, pc |-> "removeLink", err |-> "none"]
       ELSE IF at = "rename"
       THEN next(Rename(RemoveAll(f, bp).fs, mp, bp), "removeBackup")
       ELSE IF at = "removeBackup" THEN next(RemoveAll(f, bp), "symlink")
       ELSE IF at = "removeLink" THEN next(Remove(f, mp), "symlink")
       ELSE next(Symlink(f, instancePath, mp, TRUE), "done")

\* SwitchInstance that puts the displaced directory back when the symlink
\* cannot be created
SwitchInstance_rollsBack(f, ip, mp, bp, name, symlinkAllowed) ==
    LET instancePath == Join(ip, name)
        r1 == displaceLive(f, mp, bp)
        r2 == Symlink(r1.fs, instancePath, mp, symlinkAllowed)
    IN IF name = EmptyName THEN Fail(f, "empty")
       ELSE IF StatNotExist(f, instancePath) THEN Fail(f, "notfound")
       ELSE IF r1.err # "none" THEN Fail(r1.fs, "io")
       ELSE IF r2.err # "none" THEN Fail(f, "io")
       ELSE Ok(r2.fs)

SwitchInstance(f, ip, mp, bp, name, symlinkAllowed) ==
    LET instancePath == Join(ip, name)
        r1 == displaceLive(f, mp, bp)
        r2 == Symlink(r1.fs, instancePath, mp, symlinkAllowed)
    IN IF name = EmptyName THEN Fail(f, "empty")
       ELSE IF StatNotExist(f, instancePath) THEN Fail(f, "notfound")
       ELSE IF r1.err # "none" THEN Fail(r1.fs, "io")
       ELSE IF r2.err # "none" THEN Fail(r2.fs, "io")
       ELSE Ok(r2.fs)

\* SwitchInstance one filesystem call at a time, as another process sees
\* it: at is the call the invocation is about to make ("idle" before the
\* checks of the name), the result says which call comes next
switchStep(f, ip, mp, bp, name, at) ==
    LET instancePath == Join(ip, name)
        next(r, to) == IF r.err # "none"
                       THEN [fs |-> r.fs, pc |-> "done", err |-> "io"]
                       ELSE [fs |-> r.fs, pc |-> to, err |-> "none"]
    IN IF at = "idle"
       THEN IF name = EmptyName THEN [fs |-> f, pc |-> "done", err |-> "empty"]
            ELSE IF StatNotExist(f, instancePath)
            THEN [fs |-> f, pc |-> "done", err |-> "notfound"]
            ELSE [fs |-> f, pc |-> "lstat", err |-> "none"]
       ELSE IF at = "lstat"
       THEN IF ~Lexists(f, mp) THEN [fs |-> f, pc |-> "symlink", err |-> "none"]
            ELSE IF ~IsSymlink(f, mp)
            THEN [fs |-> f, pc |-> "removeBackup", err |-> "none"]
            ELSE [fs |-> f, pc |-> "removeLink", err |-> "none"]
       ELSE IF at = "removeBackup" THEN next(RemoveAll(f, bp), "rename")
       ELSE IF at = "rename" THEN next(Rename(f, mp, bp), "symlink")
       ELSE IF at = "removeLink" THEN next(Remove(f, mp), "symlink")
       ELSE next(Symlink(f, instancePath, mp, TRUE), "done")

\* RestoreDefault that removes the symlink and leaves the backup where it is
RestoreDefault_dropsBackup(f, mp, bp) ==
    LET r1 == IF IsSymlink(f, mp) THEN Remove(f, mp) ELSE Ok(f)
    IN IF r1.err # "none" THEN Fail(r1.fs, "io") ELSE Ok(r1.fs)

\* RestoreDefault that makes an empty live directory when there is no backup
RestoreDefault_fabricatesDir(f, mp, bp) ==
    LET r1 == IF IsSymlink(f, mp) THEN Remove(f, mp) ELSE Ok(f)
        r2 == IF StatExists(r1.fs, bp) THEN Rename(r1.fs, bp, mp)
              ELSE MkdirAll(r1.fs, mp)
    IN IF r1.err # "none" THEN Fail(r1.fs, "io")
       ELSE IF r2.err # "none" THEN Fail(r2.fs, "io")
       ELSE Ok(r2.fs)

\* RestoreDefault that reports an error when there is no backup to restore
RestoreDefault_requiresBackup(f, mp, bp) ==
    LET r1 == IF IsSymlink(f, mp) THEN Remove(f, mp) ELSE Ok(f)
        r2 == IF StatExists(r1.fs, bp) THEN Rename(r1.fs, bp, mp)
              ELSE Fail(r1.fs, "io")
    IN IF r1.err # "none" THEN Fail(r1.fs, "io")
       ELSE IF r2.err # "none" THEN Fail(r2.fs, "io")
       ELSE Ok(r2.fs)

RestoreDefault(f, mp, bp) ==
    LET r1 == IF IsSymlink(f, mp) THEN Remove(f, mp) ELSE Ok(f)
        r2 == IF StatExists(r1.fs, bp) THEN Rename(r1.fs, bp, mp) ELSE Ok(r1.fs)
    IN IF r1.err # "none" THEN Fail(r1.fs, "io")
       ELSE IF r2.err # "none" THEN Fail(r2.fs, "io")
       ELSE Ok(r2.fs)

\* DeleteInstance without the check of the active instance
DeleteInstance_skipsActiveCheck(f, ip, mp, name) ==
    LET instancePath == Join(ip, name)
    IN IF name = EmptyName THEN Fail(f, "empty")
       ELSE IF StatNotExist(f, instancePath) THEN Fail(f, "notfound")
       ELSE RemoveAll(f, instancePath)

DeleteInstance(f, ip, mp, name) ==
    LET instancePath == Join(ip, name)
    IN IF name = EmptyName THEN Fail(f, "empty")
       ELSE IF StatNotExist(f, instancePath) THEN Fail(f, "notfound")
       ELSE IF GetActiveInstance(f, mp) = name THEN Fail(f, "active")
       ELSE RemoveAll(f, instancePath)

countJarFiles(f, dir) ==
    IF ~ReadDirOk(f, dir) THEN 0
    ELSE Cardinality({s \in Children(f, Follow(f, dir)) :
            NodeAt(f, Append(Follow(f, dir), s)).kind # "dir" /\ s \in JarSegs})
countFiles(f, dir) ==
    IF ~ReadDirOk(f, dir) THEN 0
    ELSE Cardinality({s \in Children(f, Follow(f, dir)) :
            NodeAt(f, Append(Follow(f, dir), s)).kind # "dir"})
\* countDirectories counting every entry
countDirectories_countsAll(f, dir) ==
    IF ~ReadDirOk(f, dir) THEN 0
    ELSE Cardinality(Children(f, Follow(f, dir)))

countDirectories(f, dir) ==
    IF ~ReadDirOk(f, dir) THEN 0
    ELSE Cardinality({s \in Children(f, Follow(f, dir)) :
            NodeAt(f, Append(Follow(f, dir), s)).kind = "dir"})

\* instanceEntry with the active flag set for every entry while some
\* instance is active
instanceEntry_anyActive(f, ip, mp, seg) ==
    LET instancePath == Join(ip, <<seg>>)
    IN [Name |-> <<seg>>,
        Path |-> instancePath,
        IsActive |-> IsSymlink(f, mp),
        ModCount |-> countJarFiles(f, Join(instancePath, <<"mods">>)),
        ConfigCount |-> countFiles(f, Join(instancePath, <<"config">>)),
        SaveCount |-> countDirectories(f, Join(instancePath, <<"saves">>))]

\* one entry of ListInstances
instanceEntry(f, ip, mp, seg) ==
    LET instancePath == Join(ip, <<seg>>)
    IN [Name |-> <<seg>>,
        Path |-> instancePath,
        IsActive |-> (<<seg>> = GetActiveInstance(f, mp)),
        ModCount |-> countJarFiles(f, Join(instancePath, <<"mods">>)),
        ConfigCount |-> countFiles(f, Join(instancePath, <<"config">>)),
        SaveCount |-> countDirectories(f, Join(instancePath, <<"saves">>))]

RECURSIVE listEntries(_, _, _, _)
listEntries(f, ip, mp, segs) ==
    IF segs = <<>> THEN <<>>
    ELSE <<instanceEntry(f, ip, mp, Head(segs))>>
         \o listEntries(f, ip, mp, Tail(segs))

\* ListInstances returning every entry of the instances root
ListInstances_allEntries(f, ip, mp) ==
    IF ~StatExists(f, ip) \/ ~ReadDirOk(f, ip) THEN <<>>
    ELSE listEntries(f, ip, mp, SortSegs(Children(f, Follow(f, ip))))

\* the error ListInstances returns: none when the instances root does not
\* exist, the os.ReadDir error when it cannot be read
ListInstancesErr(f, ip) ==
    IF StatNotExist(f, ip) THEN "none"
    ELSE IF ~ReadDirOk(f, ip) THEN "io"
    ELSE "none"

\* ListInstances: the directories among the entries of the instances root,
\* sorted by name (the entries of one directory have distinct names)
ListInstances(f, ip, mp) ==
    IF ~StatExists(f, ip) \/ ~ReadDirOk(f, ip) THEN <<>>
    ELSE listEntries(f, ip, mp,
            SortSegs({s \in Children(f, Follow(f, ip)) :
                         NodeAt(f, Append(Follow(f, ip), s)).kind = "dir"}))

\* the sorted names getJarFiles, getConfigFiles and getDirectoryNames return
getJarFiles(f, dir) ==
    IF ~ReadDirOk(f, dir) THEN <<>>
    ELSE SortSegs({s \in Children(f, Follow(f, dir)) :
            NodeAt(f, Append(Follow(f, dir), s)).kind # "dir" /\ s \in JarSegs})
getConfigFiles(f, dir) ==
    IF ~ReadDirOk(f, dir) THEN <<>>
    ELSE SortSegs({s \in Children(f, Follow(f, dir)) :
            NodeAt(f, Append(Follow(f, dir), s)).kind # "dir"})
getDirectoryNames(f, dir) ==
    IF ~ReadDirOk(f, dir) THEN <<>>
    ELSE SortSegs({s \in Children(f, Follow(f, dir)) :
            NodeAt(f, Append(Follow(f, dir), s)).kind = "dir"})

\* GetInstanceInfo (inspect)
GetInstanceInfo(f, ip, name) ==
    LET instancePath == Join(ip, name)
    IN IF StatNotExist(f, instancePath)
       THEN [err |-> "notfound", ModsDir |-> <<>>, ConfigsDir |-> <<>>,
             SavesDir |-> <<>>]
       ELSE [err |-> "none",
             ModsDir |-> getJarFiles(f, Join(instancePath, <<"mods">>)),
             ConfigsDir |-> getConfigFiles(f, Join(instancePath, <<"config">>)),
             SavesDir |-> getDirectoryNames(f, Join(instancePath, <<"saves">>))]

\* the minecraft keys with one more
MinecraftKeys_withTheme == {"minecraft-path", "minecraft-dir", "minecraft",
                            "theme"}
\* the keys UpdateConfig recognizes, and one it does not
MinecraftKeys == {"minecraft-path", "minecraft-dir", "minecraft"}
InstancesKeys == {"instances-path", "instances-dir", "instances"}
BackupKeys == {"backup-path", "backup-dir", "backup"}
UnknownKeys == {"theme"}
\* the keys given when the game directory and the backup slot are moved,
\* and when the instances root and the game directory are moved
DataKeys == {"minecraft-path", "backup", "theme"}
RootKeys == {"minecraft-dir", "instances-path"}

\* the keys and the values given in the runs about reloading: the empty
\* string is a value too
ReloadKeys ==
    {"minecraft", "instances-dir", "instances", "backup-path", "backup-dir"}
EmptyPath == <<>>
\* the configuration files a user may leave after editing by hand
EditedFiles ==
    [instances_path : {EmptyPath, AltInstancesPath, DefaultInstancesPath},
     minecraft_path : {EmptyPath, AltMinecraftPath, DefaultMinecraftPath},
     backup_path : {EmptyPath, AltBackupPath, DefaultBackupPath}]

\* the values given for a key: the default location and another one; the
\* three locations are never given nested in one another
ConfigValues(key) ==
    IF key \in MinecraftKeys THEN {DefaultMinecraftPath, AltMinecraftPath}
    ELSE IF key \in InstancesKeys THEN {DefaultInstancesPath, AltInstancesPath}
    ELSE IF key \in BackupKeys THEN {DefaultBackupPath, AltBackupPath}
    ELSE {AltBackupPath}

\* what saveConfig writes
savedConfig(ip, mp, bp) ==
    [instances_path |-> ip, minecraft_path |-> mp, backup_path |-> bp]

\* loadConfig that keeps an empty field empty
loadConfig_keepsEmpty(file) ==
    [instances_path |-> expandPath(file.instances_path),
     minecraft_path |-> expandPath(file.minecraft_path),
     backup_path |-> expandPath(file.backup_path)]

\* loadConfig that derives the three paths afresh
loadConfig_rederivesDefaults(file) ==
    savedConfig(DefaultInstancesPath, DefaultMinecraftPath, DefaultBackupPath)

\* loadConfig on a file that exists and parses: ~ expanded, an empty field
\* replaced by its default
loadConfig(file) ==
    LET heal(p, default) == IF expandPath(p) = <<>> THEN default
                            ELSE expandPath(p)
    IN [instances_path |-> heal(file.instances_path, DefaultInstancesPath),
        minecraft_path |-> heal(file.minecraft_path, DefaultMinecraftPath),
        backup_path |-> heal(file.backup_path, DefaultBackupPath)]

\* NewManager with the configuration file present: the paths of the new
\* Manager and the disk after os.MkdirAll of the instances root
NewManager(f, file) ==
    LET cfg == loadConfig(file)
        r == MkdirAll(f, cfg.instances_path)
    IN [fs |-> r.fs, ip |-> cfg.instances_path, mp |-> cfg.minecraft_path,
        bp |-> cfg.backup_path, err |-> r.err]

\* UpdateConfig: the paths, the filesystem and the configuration file after
\* the call
UpdateConfig(f, ip, mp, bp, file, key, rawValue) ==
    LET value == expandPath(rawValue)
        r == MkdirAll(f, value)
        out(f2, ip2, mp2, bp2, file2, e) ==
            [fs |-> f2, ip |-> ip2, mp |-> mp2, bp |-> bp2,
             file |-> file2, err |-> e]
    IN IF key \in MinecraftKeys
       THEN out(f, ip, value, bp, savedConfig(ip, value, bp), "none")
       ELSE IF key \in InstancesKeys
       THEN IF r.err # "none" THEN out(r.fs, value, mp, bp, file, "io")
            ELSE out(r.fs, value, mp, bp, savedConfig(value, mp, bp), "none")
       ELSE IF key \in BackupKeys
       THEN out(f, ip, mp, value, savedConfig(ip, mp, value), "none")
       ELSE out(f, ip, mp, bp, file, "unknownkey")

(***************************************************************************)
(* The terminal interface (package tui).  The model m of the interface is  *)
(* a record:                                                               *)
(*   state             the screen                                          *)
(*   instances         the list the latest refreshMsg loaded               *)
(*   index             the selected row of the list                        *)
(*   selectedInstance  the name m.selectedInstance points at, <<>> for nil  *)
(*   textInput         the text typed into the name input                  *)
(*   err               m.err                                               *)
(*   pending           the messages of the commands that were returned     *)
(*                     and not handled yet; the runtime delivers them in   *)
(*                     any order, between key presses                      *)
(*   manager           "ok", or "nil" when NewManager failed               *)
(*   crashed           a handler dereferenced the nil manager: the program *)
(*                     has panicked                                        *)
(*   call              what the latest step called on the Manager or in    *)
(*                     the delete command, and the key of a key press on   *)
(*                     the create screen, for the properties               *)
(* A message carries the screen and the key that produced it (via).  The   *)
(* keys are TuiKeys; quit, help, search, tab and edit are left out.        *)
(***************************************************************************)
TuiKeys == Runes \cup {"enter", "esc", "backspace", "up", "down", "f5"}
\* key.WithKeys("esc", "backspace")
BackKeys == {"esc", "backspace"}
\* the commands in flight at one time
MaxPending == 1

NoVia == [state |-> "none", key |-> "none"]
NoCall == [op |-> "none", name |-> <<>>, via |-> NoVia]
Cmd(type, name, m, key) ==
    [type |-> type, name |-> name, via |-> [state |-> m.state, key |-> key]]
refreshInstances == [type |-> "refreshMsg", name |-> <<>>, via |-> NoVia]
Issue(m, msg) == [m EXCEPT !.pending = Append(@, msg)]

\* initialModel with the commands of Init, NewManager having succeeded
initialModel ==
    [state |-> "stateList", instances |-> <<>>, index |-> 1,
     selectedInstance |-> <<>>, textInput |-> <<>>, err |-> "none",
     pending |-> <<refreshInstances>>, call |-> NoCall,
     manager |-> "ok", crashed |-> FALSE]

\* initialModel on the disk f with the configuration file file: manager and
\* err are what NewManager returned
startModel(f, file) ==
    LET r == NewManager(f, file)
    IN [initialModel EXCEPT
           !.manager = IF r.err = "none" THEN "ok" ELSE "nil",
           !.err = r.err]

\* m.list.Update for a key: up and down move the selection inside the list
listUpdate(m, key) ==
    IF key = "up" /\ m.index > 1 THEN [m EXCEPT !.index = @ - 1]
    ELSE IF key = "down" /\ m.index < Len(m.instances)
    THEN [m EXCEPT !.index = @ + 1]
    ELSE m

updateList(m, f, ip, key) ==
    LET selected == m.instances[m.index]
    IN IF key = "enter"
       THEN IF Len(m.instances) = 0 THEN m
            ELSE IF selected.IsActive
            THEN LET info == GetInstanceInfo(f, ip, selected.Name)
                     m1 == [m EXCEPT !.selectedInstance = selected.Name]
                 IN IF info.err # "none" THEN [m1 EXCEPT !.err = info.err]
                    ELSE [m1 EXCEPT !.state = "stateDetailPanel"]
            ELSE Issue(m, Cmd("switchMsg", selected.Name, m, key))
       ELSE IF key = "c"
       THEN [m EXCEPT !.state = "stateCreate", !.textInput = <<>>]
       ELSE IF key = "d"
       THEN IF Len(m.instances) = 0 THEN m
            ELSE IF selected.IsActive THEN [m EXCEPT !.err = "active"]
            ELSE [m EXCEPT !.selectedInstance = selected.Name,
                           !.state = "stateConfirmDelete"]
       ELSE IF key = "f5" THEN Issue([m EXCEPT !.err = "none"], refreshInstances)
       ELSE IF key = "r" THEN Issue(m, Cmd("confirmRestoreMsg", <<>>, m, key))
       ELSE listUpdate(m, key)

updateDetailPanel(m, key) ==
    IF key \in BackKeys THEN [m EXCEPT !.state = "stateList"] ELSE m

\* the name input is focused while the screen is stateCreate; a key of
\* BackKeys blurs it before it sees the key
updateCreate(m, key) ==
    LET name == TrimSpace(m.textInput)
    IN IF key = "enter"
       THEN IF name # <<>> THEN Issue(m, Cmd("createMsg", <<Text(name)>>, m, key))
            ELSE m
       ELSE IF key \in BackKeys THEN [m EXCEPT !.state = "stateList"]
       ELSE IF key \in Runes THEN [m EXCEPT !.textInput = Append(@, key)]
       ELSE m

updateConfirmDelete(m, key) ==
    IF key \in {"y", "Y"}
    THEN Issue(m, Cmd("deleteMsg", m.selectedInstance, m, key))
    ELSE IF key \in {"n", "N", "esc"} THEN [m EXCEPT !.state = "stateList"]
    ELSE m

updateConfirmRestore(m, key) ==
    IF key \in {"r", "enter"} THEN Issue(m, Cmd("restoreMsg", <<>>, m, key))
    ELSE IF key = "esc" THEN [m EXCEPT !.state = "stateList"]
    ELSE m

\* Update for a tea.KeyMsg
updateKey(m, f, ip, key) ==
    IF m.state = "stateList" THEN updateList(m, f, ip, key)
    ELSE IF m.state = "stateDetailPanel" THEN updateDetailPanel(m, key)
    ELSE IF m.state = "stateCreate" THEN updateCreate(m, key)
    ELSE IF m.state = "stateConfirmDelete" THEN updateConfirmDelete(m, key)
    ELSE updateConfirmRestore(m, key)

\* Update for the message of a command: the model and the disk after it.
\* Every case but confirmRestoreMsg starts with a method call on m.manager,
\* which reads a field of the Manager: a nil pointer dereference when the
\* manager is nil
updateMsg(m, f, ip, mp, bp, msg) ==
    LET after(r, done) ==
            [m |-> Issue(IF r.err # "none" THEN [m EXCEPT !.err = r.err]
                         ELSE done, refreshInstances),
             fs |-> r.fs]
        listed == ListInstances(f, ip, mp)
    IN IF m.manager = "nil" /\ msg.type # "confirmRestoreMsg"
       THEN [m |-> [m EXCEPT !.crashed = TRUE], fs |-> f]
       ELSE IF msg.type = "refreshMsg"
       THEN IF ListInstancesErr(f, ip) # "none"
            THEN [m |-> [m EXCEPT !.err = ListInstancesErr(f, ip)], fs |-> f]
            ELSE [m |-> [m EXCEPT !.instances = listed,
                                  !.index = IF @ > Len(listed) /\ @ > 1
                                            THEN IF listed = <<>> THEN 1
                                                 ELSE Len(listed)
                                            ELSE @,
                                  !.err = "none"],
                  fs |-> f]
       ELSE IF msg.type = "switchMsg"
       THEN after(SwitchInstance(f, ip, mp, bp, msg.name, TRUE), m)
       ELSE IF msg.type = "createMsg"
       THEN after(CreateInstance(f, ip, mp, msg.name),
                  [m EXCEPT !.state = "stateList"])
       ELSE IF msg.type = "deleteMsg"
       THEN after(DeleteInstance(f, ip, mp, msg.name),
                  [m EXCEPT !.state = "stateList"])
       ELSE IF msg.type = "restoreMsg"
       THEN after(RestoreDefault(f, mp, bp), m)
       ELSE [m |-> [m EXCEPT !.state = "stateConfirmRestore"], fs |-> f]

\* a key press calls nothing on the Manager; on the create screen the key
\* is recorded
keyOf(m, key) ==
    IF m.state = "stateCreate"
    THEN [NoCall EXCEPT !.via = [state |-> m.state, key |-> key]]
    ELSE NoCall

\* the Manager call a message makes
callOf(msg) ==
    IF msg.type = "deleteMsg"
    THEN [op |-> "DeleteInstance", name |-> msg.name, via |-> msg.via]
    ELSE IF msg.type = "restoreMsg"
    THEN [op |-> "RestoreDefault", name |-> <<>>, via |-> msg.via]
    ELSE NoCall

(***************************************************************************)
(* The delete command.  The line the user types at the prompt is the       *)
(* sequence of its words.                                                  *)
(***************************************************************************)
\* fmt.Scanln(&response): the first word of the line, "" for an empty line
Scanln(line) == IF line = <<>> THEN "" ELSE line[1]

\* deleteCmd: the disk after the command, and whether it called
\* DeleteInstance
deleteCmd(f, file, name, line) ==
    LET manager == NewManager(f, file)
        response == Scanln(line)
        r == DeleteInstance(manager.fs, manager.ip, manager.mp, name)
    IN IF manager.err # "none"
       THEN [fs |-> manager.fs, err |-> manager.err, called |-> FALSE]
       ELSE IF response # "y" /\ response # "Y"
       THEN [fs |-> manager.fs, err |-> "cancelled", called |-> FALSE]
       ELSE [fs |-> r.fs, err |-> r.err, called |-> TRUE]

(***************************************************************************)
(* The state machine.  Besides the disk, the Manager's paths and the       *)
(* configuration file, the state records the last call and its result      *)
(* (last) and what the properties below compare the disk with:             *)
(*   orig       the user's game directory before the first call            *)
(*   pre        the live path and the backup slot before the latest        *)
(*              successful SwitchInstance that found no symlink at the     *)
(*              live path; state is "armed" from then on, "restored"       *)
(*              right after the RestoreDefault that follows                *)
(*   displaced  the latest directory SwitchInstance moved to the backup    *)
(*              slot, the slot it was moved to (at) and what the slot      *)
(*              held before (replaced)                                     *)
(*   chain      the real directory a run of successful SwitchInstance      *)
(*              calls started from, and the length of the run (2 stands    *)
(*              for 2 or more); "restored" right after the RestoreDefault  *)
(*              that ends the run                                          *)
(*   scen       the progress of the vanilla/modded scenario                *)
(*   sw         the SwitchInstance invocations of two processes that run   *)
(*              at the same time: the call each is about to make, its      *)
(*              name and its result                                        *)
(***************************************************************************)
None == [kind |-> "none", tree |-> <<>>]
NoPre == [state |-> "none", live |-> None, backup |-> None]
NoChain == [state |-> "none", start |-> None, hops |-> 0]
NoDisplaced == [content |-> None, at |-> <<>>, replaced |-> None]

\* what a user's game directory holds
UserFiles(d) ==
    (<<"mods">> :> DirNode) @@ (<<"mods", "x.jar">> :> FileNode(d))
    @@ (<<"mods", "readme.txt">> :> FileNode(d))
    @@ (<<"config">> :> DirNode) @@ (<<"config", "c.cfg">> :> FileNode(d))
    @@ (<<"config", ".DS_Store">> :> FileNode(d))
    @@ (<<"saves">> :> DirNode) @@ (<<"saves", "w1">> :> DirNode)
    @@ (<<"saves", "note.txt">> :> FileNode(d))
    @@ (<<".DS_Store">> :> FileNode(d))
OtherFiles(d) == (<<"options.txt">> :> FileNode(d))

\* the tree t placed as a directory at path p
Planted(p, t) ==
    [q \in {p} \cup {p \o r : r \in DOMAIN t} |->
        IF q = p THEN DirNode ELSE t[SubSeq(q, Len(p) + 1, Len(q))]]

\* the disk after the first NewManager: the application directory with the
\* instances root, the user's game directory (or none), and another game
\* directory
InitialDisk(withLive) ==
    (HomeDir :> DirNode) @@ (AppDir :> DirNode)
    @@ (DefaultInstancesPath :> DirNode)
    @@ Planted(expandPath(AltMinecraftPath), OtherFiles("e"))
    @@ (IF withLive THEN Planted(DefaultMinecraftPath, UserFiles("d"))
        ELSE <<>>)

\* the two processes running SwitchInstance at the same time, none started
Procs == {1, 2}
NoRace ==
    [pc |-> [p \in Procs |-> "idle"], name |-> [p \in Procs |-> <<>>],
     err |-> [p \in Procs |-> "none"], calls |-> 0, overlapped |-> FALSE,
     start |-> None]

\* the same disk with a clutter file in the instances root, and with the
\* instances root removed by hand since the Manager was constructed
ClutteredDisk ==
    InitialDisk(TRUE)
    @@ (Join(DefaultInstancesPath, <<".DS_Store">>) :> FileNode("c"))
RootlessDisk == RemoveAll(InitialDisk(TRUE), DefaultInstancesPath).fs

\* a Manager with the default paths on one of the disks
StartOn(disks) ==
    /\ fs \in disks
    /\ InstancesPath = DefaultInstancesPath
    /\ MinecraftPath = DefaultMinecraftPath
    /\ BackupPath = DefaultBackupPath
    /\ configFile = savedConfig(DefaultInstancesPath, DefaultMinecraftPath,
                                DefaultBackupPath)
    /\ last = [op |-> "init", name |-> <<>>, arg |-> <<>>, err |-> "none"]
    /\ nCreate = 0 /\ nConfig = 0 /\ nFail = 0
    /\ orig = Subtree(fs, DefaultMinecraftPath)
    /\ pre = NoPre
    /\ displaced = NoDisplaced
    /\ chain = NoChain
    /\ scen = [step |-> 0, backup |-> None]
    /\ sw = NoRace
    /\ tui = initialModel

Init == StartOn({InitialDisk(withLive) : withLive \in BOOLEAN})

Did(op, name, arg, err) ==
    last' = [op |-> op, name |-> name, arg |-> arg, err |-> err]

\* the scenario create(vanilla), create(modded), switchTo(modded),
\* switchTo(vanilla) from the initial state: step counts the calls made so
\* far, -1 once the behaviour has left the scenario; backup is the backup
\* slot after the switch to modded
ScenarioCall(step) ==
    IF step = 0 THEN [op |-> "create", name |-> Vanilla]
    ELSE IF step = 1 THEN [op |-> "create", name |-> Modded]
    ELSE IF step = 2 THEN [op |-> "switch", name |-> Modded]
    ELSE IF step = 3 THEN [op |-> "switch", name |-> Vanilla]
    ELSE [op |-> "none", name |-> <<>>]
ScenarioNext(op, name, err) ==
    scen' = IF scen.step >= 0 /\ err = "none"
               /\ ScenarioCall(scen.step) = [op |-> op, name |-> name]
            THEN [step |-> scen.step + 1,
                  backup |-> IF scen.step = 2 THEN Subtree(fs', BackupPath')
                             ELSE scen.backup]
            ELSE [step |-> -1, backup |-> None]

\* pre and chain after a call that is neither SwitchInstance nor
\* RestoreDefault
PreKept == pre' = IF pre.state = "restored" THEN NoPre ELSE pre

Create(name) ==
    LET r == CreateInstance(fs, InstancesPath, MinecraftPath, name)
    IN /\ r.err = "none" => nCreate < MaxCreates
       /\ fs' = r.fs
       /\ nCreate' = IF r.err = "none" THEN nCreate + 1 ELSE nCreate
       /\ Did("create", name, <<>>, r.err)
       /\ PreKept
       /\ chain' = NoChain
       /\ UNCHANGED <<sw, tui, InstancesPath, MinecraftPath, BackupPath, configFile,
                      nConfig, nFail, orig, displaced>>
       /\ ScenarioNext("create", name, r.err)

Switch(name, symlinkAllowed) ==
    LET r == SwitchInstance(fs, InstancesPath, MinecraftPath, BackupPath,
                            name, symlinkAllowed)
        valid == name # EmptyName
                 /\ ~StatNotExist(fs, Join(InstancesPath, name))
        wasReal == Lexists(fs, MinecraftPath) /\ ~IsSymlink(fs, MinecraftPath)
        wasLink == IsSymlink(fs, MinecraftPath)
        moved == valid /\ wasReal
                 /\ displaceLive(fs, MinecraftPath, BackupPath).err = "none"
    IN /\ ~symlinkAllowed =>
            /\ nFail < MaxSymlinkFailures
            /\ SwitchInstance(fs, InstancesPath, MinecraftPath, BackupPath,
                              name, TRUE).err = "none"
       /\ fs' = r.fs
       /\ nFail' = IF symlinkAllowed THEN nFail ELSE nFail + 1
       /\ Did("switch", name, <<>>, r.err)
       /\ displaced' = IF moved
                       THEN [content |-> Subtree(fs, MinecraftPath),
                             at |-> BackupPath,
                             replaced |-> Subtree(fs, BackupPath)]
                       ELSE displaced
       /\ pre' = IF r.err = "none" /\ ~wasLink
                 THEN [state |-> "armed",
                       live |-> Subtree(fs, MinecraftPath),
                       backup |-> Subtree(fs, BackupPath)]
                 ELSE IF pre.state = "restored" THEN NoPre
                 ELSE pre
       /\ chain' = IF r.err # "none" THEN NoChain
                   ELSE IF wasReal
                   THEN [state |-> "switched",
                         start |-> Subtree(fs, MinecraftPath), hops |-> 1]
                   ELSE IF wasLink /\ chain.state = "switched"
                   THEN [chain EXCEPT !.hops = 2]
                   ELSE NoChain
       /\ UNCHANGED <<sw, tui, InstancesPath, MinecraftPath, BackupPath, configFile,
                      nCreate, nConfig, orig>>
       /\ ScenarioNext("switch", name, r.err)

Restore ==
    LET r == RestoreDefault(fs, MinecraftPath, BackupPath)
    IN /\ fs' = r.fs
       /\ Did("restore", <<>>, <<>>, r.err)
       /\ pre' = IF r.err = "none" /\ pre.state = "armed"
                 THEN [pre EXCEPT !.state = "restored"]
                 ELSE IF r.err = "none" \/ pre.state = "restored" THEN NoPre
                 ELSE pre
       /\ chain' = IF r.err = "none" /\ chain.state = "switched"
                   THEN [chain EXCEPT !.state = "restored"]
                   ELSE NoChain
       /\ UNCHANGED <<sw, tui, InstancesPath, MinecraftPath, BackupPath, configFile,
                      nCreate, nConfig, nFail, orig, displaced>>
       /\ ScenarioNext("restore", <<>>, r.err)

Delete(name) ==
    LET r == DeleteInstance(fs, InstancesPath, MinecraftPath, name)
    IN /\ fs' = r.fs
       /\ Did("delete", name, <<>>, r.err)
       /\ PreKept
       /\ chain' = NoChain
       /\ UNCHANGED <<sw, tui, InstancesPath, MinecraftPath, BackupPath, configFile,
                      nCreate, nConfig, nFail, orig, displaced>>
       /\ ScenarioNext("delete", name, r.err)

Configure(key, value, budget) ==
    LET r == UpdateConfig(fs, InstancesPath, MinecraftPath, BackupPath,
                          configFile, key, value)
    IN /\ nConfig < budget
       /\ nConfig' = nConfig + 1
       /\ fs' = r.fs
       /\ InstancesPath' = r.ip
       /\ MinecraftPath' = r.mp
       /\ BackupPath' = r.bp
       /\ configFile' = r.file
       /\ Did("config", <<key>>, value, r.err)
       /\ pre' = NoPre
       /\ chain' = NoChain
       /\ UNCHANGED <<sw, tui, nCreate, nFail, orig, displaced>>
       /\ ScenarioNext("config", <<key>>, r.err)

\* a new process constructs its Manager from the configuration file
Load ==
    LET r == NewManager(fs, configFile)
    IN /\ fs' = r.fs
       /\ InstancesPath' = IF r.err = "none" THEN r.ip ELSE InstancesPath
       /\ MinecraftPath' = IF r.err = "none" THEN r.mp ELSE MinecraftPath
       /\ BackupPath' = IF r.err = "none" THEN r.bp ELSE BackupPath
       /\ Did("load", <<>>, <<>>, r.err)
       /\ pre' = NoPre
       /\ chain' = NoChain
       /\ UNCHANGED <<sw, tui, configFile, nCreate, nConfig, nFail, orig,
                      displaced>>
       /\ ScenarioNext("load", <<>>, r.err)

\* the user edits the configuration file by hand
EditFile(file) ==
    /\ file # configFile
    /\ configFile' = file
    /\ Did("edit", <<>>, <<>>, "none")
    /\ UNCHANGED <<sw, tui, fs, InstancesPath, MinecraftPath, BackupPath, nCreate,
                   nConfig, nFail, orig, pre, displaced, chain, scen>>

\* UpdateConfig with any value, the empty string included
Retype(keys, budget) ==
    \E key \in keys : \E value \in ConfigValues(key) \cup {EmptyPath} :
        Configure(key, value, budget)

\* the calls made with the names of the set names; modes says whether the
\* platform may refuse to create a symlink (FALSE \in modes)
Calls(names, modes) ==
    \/ \E name \in names : Create(name)
    \/ \E name \in names, symlinkAllowed \in modes :
          Switch(name, symlinkAllowed)
    \/ Restore
    \/ \E name \in names : Delete(name)

Reconfigure(keys, budget) ==
    \E key \in keys : \E value \in ConfigValues(key) :
        Configure(key, value, budget)

\* the instance operations, with flat and nested names, on a platform that
\* may refuse a symlink
Next == Calls(CoreNames, BOOLEAN)

Spec == Init /\ [][Next]_vars

\* a user with a game directory
InitWithData == Init /\ orig.kind = "dir"

\* the instance operations interleaved with updates of the game directory
\* path and the backup path
NextConfig == Calls(ConfigNames, {TRUE}) \/ Reconfigure(DataKeys, MaxConfigUpdates)

SpecConfig == InitWithData /\ [][NextConfig]_vars

\* the instance operations interleaved with updates of the instances root
\* and the game directory path
NextRoots == Calls(ConfigNames, {TRUE}) \/ Reconfigure(RootKeys, MaxRootUpdates)

SpecRoots == Init /\ [][NextRoots]_vars

\* no SwitchInstance invocation of the two processes is under way
Quiet == \A p \in Procs : sw.pc[p] \in {"idle", "done"}

\* a process starts SwitchInstance(name): the checks of the name.  start is
\* the live path when the first of the invocations under way began,
\* overlapped says whether one began while another was under way.
RaceBegin(p, name) ==
    LET r == switchStep(fs, InstancesPath, MinecraftPath, BackupPath, name,
                        "idle")
    IN /\ sw.pc[p] \in {"idle", "done"}
       /\ sw.calls < MaxRaceSwitches
       /\ fs' = r.fs
       /\ sw' = [pc |-> [sw.pc EXCEPT ![p] = r.pc],
                 name |-> [sw.name EXCEPT ![p] = name],
                 err |-> [sw.err EXCEPT ![p] = r.err],
                 calls |-> sw.calls + 1,
                 overlapped |-> ~Quiet,
                 start |-> IF Quiet THEN Subtree(fs, MinecraftPath)
                           ELSE sw.start]
       /\ UNCHANGED <<tui, InstancesPath, MinecraftPath, BackupPath,
                      configFile,
                      last, nCreate, nConfig, nFail, orig, pre, displaced,
                      chain, scen>>

\* a process makes the next filesystem call of its SwitchInstance
RaceStep(p) ==
    LET r == switchStep(fs, InstancesPath, MinecraftPath, BackupPath,
                        sw.name[p], sw.pc[p])
    IN /\ sw.pc[p] \notin {"idle", "done"}
       /\ fs' = r.fs
       /\ sw' = [sw EXCEPT !.pc[p] = r.pc, !.err[p] = r.err]
       /\ UNCHANGED <<tui, InstancesPath, MinecraftPath, BackupPath,
                      configFile,
                      last, nCreate, nConfig, nFail, orig, pre, displaced,
                      chain, scen>>

\* instances are created while no switch is under way
RaceCreate(name) == Quiet /\ Create(name)

NextRace ==
    \/ \E name \in ConfigNames : RaceCreate(name)
    \/ \E p \in Procs, name \in ConfigNames : RaceBegin(p, name)
    \/ \E p \in Procs : RaceStep(p)

\* configuration updates, hand edits of the file and fresh Managers
NextReload ==
    \/ Retype(ReloadKeys, MaxConfigUpdates)
    \/ \E file \in EditedFiles : EditFile(file)
    \/ Load
SpecReload == Init /\ [][NextReload]_vars

\* the names in the runs about listing
ListNames == {DefaultName, Modded, Vanilla}
\* the instance operations on a disk whose instances root holds a stray
\* file or is missing
InitList == StartOn({ClutteredDisk, RootlessDisk})
NextList == Calls(ListNames, {TRUE})
SpecList == InitList /\ [][NextList]_vars

\* two processes switching at the same time
SpecRace == Init /\ [][NextRace]_vars

\* the instance operations with the edge names, on a platform that may
\* refuse a symlink
NextNames == Calls(EdgeNames, BOOLEAN)

SpecNames == Init /\ [][NextNames]_vars

(***************************************************************************)
(* The terminal interface running, and the delete command run from         *)
(* another terminal.                                                       *)
(***************************************************************************)
\* the characters the user types into the name input
TypedRunes == {" ", "c", "y"}

\* the user presses a key, with at most inFlight commands in flight
KeyWithin(key, inFlight) ==
    LET m == updateKey(tui, fs, InstancesPath, key)
    IN /\ ~tui.crashed
       /\ (tui.state = "stateCreate" /\ key \in Runes)
              => key \in TypedRunes /\ Len(tui.textInput) < MaxInputLen
       /\ Len(m.pending) <= inFlight
       /\ tui' = [m EXCEPT !.call = keyOf(tui, key)]
       /\ UNCHANGED <<fs, InstancesPath, MinecraftPath, BackupPath,
                      configFile, last, nCreate, nConfig, nFail, orig, pre,
                      displaced, chain, scen, sw>>

Key(key) == KeyWithin(key, MaxPending)

\* the runtime delivers the message of one of the commands in flight
Deliver(i) ==
    /\ ~tui.crashed
    /\ i \in 1..Len(tui.pending)
    /\ LET msg == tui.pending[i]
           rest == [j \in 1..(Len(tui.pending) - 1) |->
                       IF j < i THEN tui.pending[j] ELSE tui.pending[j + 1]]
           r == updateMsg([tui EXCEPT !.pending = rest], fs, InstancesPath,
                          MinecraftPath, BackupPath, msg)
           created ==
               /\ msg.type = "createMsg" /\ tui.manager = "ok"
               /\ CreateInstance(fs, InstancesPath, MinecraftPath,
                                 msg.name).err = "none"
       IN /\ created => nCreate < MaxCreates
          /\ fs' = r.fs
          /\ tui' = [r.m EXCEPT !.call = callOf(msg)]
          /\ nCreate' = IF created THEN nCreate + 1 ELSE nCreate
    /\ UNCHANGED <<InstancesPath, MinecraftPath, BackupPath, configFile,
                   last, nConfig, nFail, orig, pre, displaced, chain, scen,
                   sw>>

\* the lines typed at the prompt of the delete command, and the names it is
\* run with
CliLines == {<<>>, <<"y">>, <<"Y">>, <<"n">>, <<"y", "n">>}
CliNames == {<<"c">>}

\* the delete command, run while the interface is open
CliDelete(name, line) ==
    LET r == deleteCmd(fs, configFile, name, line)
    IN /\ fs' = r.fs
       /\ tui' = [tui EXCEPT !.call =
                      [op |-> IF r.called THEN "DeleteInstance" ELSE "none",
                       name |-> name,
                       via |-> [state |-> "deleteCmd", key |-> line]]]
       /\ UNCHANGED <<InstancesPath, MinecraftPath, BackupPath, configFile,
                      last, nCreate, nConfig, nFail, orig, pre, displaced,
                      chain, scen, sw>>

NextTui ==
    \/ \E key \in TuiKeys : Key(key)
    \/ \E i \in 1..MaxPending : Deliver(i)
    \/ \E name \in CliNames, line \in CliLines : CliDelete(name, line)

\* a configuration file whose instances path lies below a regular file, so
\* that NewManager fails at os.MkdirAll
BlockedConfig ==
    savedConfig(Join(DefaultMinecraftPath, <<"mods", "x.jar", "y">>),
                DefaultMinecraftPath, DefaultBackupPath)

\* the interface opened on a disk with the user's game directory, with the
\* configuration file the Manager wrote or with BlockedConfig; the in-memory
\* paths are those of the Manager and are not used when there is none
InitTui ==
    /\ configFile \in {savedConfig(DefaultInstancesPath,
                                   DefaultMinecraftPath, DefaultBackupPath),
                       BlockedConfig}
    /\ fs = InitialDisk(TRUE)
    /\ tui = startModel(fs, configFile)
    /\ InstancesPath = DefaultInstancesPath
    /\ MinecraftPath = DefaultMinecraftPath
    /\ BackupPath = DefaultBackupPath
    /\ last = [op |-> "init", name |-> <<>>, arg |-> <<>>, err |-> "none"]
    /\ nCreate = 0 /\ nConfig = 0 /\ nFail = 0
    /\ orig = Subtree(fs, DefaultMinecraftPath)
    /\ pre = NoPre
    /\ displaced = NoDisplaced
    /\ chain = NoChain
    /\ scen = [step |-> 0, backup |-> None]
    /\ sw = NoRace
SpecTui == InitTui /\ [][NextTui]_vars

\* the interface opened on a disk with two instances created earlier, the
\* user working on the list, the delete confirmation and the restore
\* confirmation screens, with up to MaxInFlight commands in flight
MaxInFlight == 2
ListKeys == {"enter", "d", "y", "r", "esc", "up", "down", "f5"}
TwoInstancesDisk ==
    CreateInstance(
        CreateInstance(InitialDisk(TRUE), DefaultInstancesPath,
                       DefaultMinecraftPath, <<"c">>).fs,
        DefaultInstancesPath, DefaultMinecraftPath, <<"y">>).fs
InitStale == StartOn({TwoInstancesDisk})
NextStale ==
    \/ \E key \in ListKeys : KeyWithin(key, MaxInFlight)
    \/ \E i \in 1..MaxInFlight : Deliver(i)
SpecStale == InitStale /\ [][NextStale]_vars

(***************************************************************************)
(* Properties.                                                             *)
(***************************************************************************)
\* the result of list() and of activeInstanceName() in the current state
Listed == ListInstances(fs, InstancesPath, MinecraftPath)
Active == GetActiveInstance(fs, MinecraftPath)
SwitchedOk == last.op = "switch" /\ last.err = "none"
RestoredOk == last.op = "restore" /\ last.err = "none"
LiveLinksTo(name) ==
    /\ IsSymlink(fs, MinecraftPath)
    /\ NodeAt(fs, MinecraftPath).target = Join(InstancesPath, name)

\* C1: after a successful switchTo(name), for any name (flat or with a path
\* separator), the live path is a symlink to the instance's directory and
\* activeInstanceName() returns exactly name.
C1_SwitchMakesNameActive ==
    SwitchedOk => LiveLinksTo(last.name) /\ Active = last.name

\* C2: while the live path is a symlink, delete(name) never removes the
\* directory the symlink points at nor a directory containing it: such a
\* delete fails with ActiveInstanceError and leaves list() unchanged.
C2_DeleteSparesActive ==
    [][(last'.op = "delete" /\ IsSymlink(fs, MinecraftPath)) =>
          LET target == NodeAt(fs, MinecraftPath).target
              path == Join(InstancesPath, last'.name)
          IN /\ Lexists(fs, target) => Lexists(fs', target)
             /\ (last'.name # EmptyName /\ StatExists(fs, path)
                   /\ IsPrefix(path, target))
                => /\ last'.err = "active"
                   /\ ListInstances(fs', InstancesPath', MinecraftPath')
                        = Listed]_vars

\* what restoreDefault() leaves at the live path after a switch that found
\* the live path as pre.live and the backup slot as pre.backup
RoundTripResult ==
    IF pre.live.kind = "absent" /\ pre.backup.kind # "absent"
    THEN pre.backup
    ELSE pre.live

\* C3 as stated: switchTo followed by restoreDefault() returns the live path
\* to its pre-switch state, the same directory content or absent, when no
\* displacing switch happened in between.
C3_RoundTripAsStated ==
    pre.state = "restored" => Subtree(fs, MinecraftPath) = pre.live

\* C3 amended: the round trip returns a pre-switch real directory byte for
\* byte, and an absent live path to absent when the backup slot was empty;
\* when the live path was absent and the backup slot held a backup, that
\* backup is what restoreDefault() puts on the live path.
C3_RoundTrip ==
    pre.state = "restored" => Subtree(fs, MinecraftPath) = RoundTripResult

C3_Witness ==
    /\ pre.state = "restored"
    /\ pre.live.kind = "dir"
    /\ Subtree(fs, MinecraftPath) = pre.live

\* a successful switchTo that moves a real live directory onto a backup slot
\* that is not empty leaves the old backup nowhere on disk
ReplacesBackup ==
    [][(last'.op = "switch" /\ last'.err = "none"
           /\ IsRealDir(fs, MinecraftPath) /\ Lexists(fs, BackupPath)) =>
          /\ Subtree(fs', BackupPath) = Subtree(fs, MinecraftPath)
          /\ \A p \in DOMAIN fs' :
                Subtree(fs', p) # Subtree(fs, BackupPath)]_vars

\* C4 as stated: whenever the backup slot exists it holds exactly what the
\* live path held before the latest switchTo that displaced a real
\* directory, and such a switch replaces an existing backup entirely.
C4_BackupAsStated ==
    /\ [](Lexists(fs, BackupPath) =>
             Subtree(fs, BackupPath) = displaced.content)
    /\ ReplacesBackup

\* C4 amended: whenever the backup slot exists and the backup path is still
\* the one the latest displacing switchTo used, the slot holds exactly what
\* the live path held before that switch; and a displacing switch replaces
\* an existing backup entirely, the old backup then being nowhere on disk.
C4_Backup ==
    /\ []((Lexists(fs, BackupPath) /\ displaced.at = BackupPath) =>
             Subtree(fs, BackupPath) = displaced.content)
    /\ ReplacesBackup

C4_Witness ==
    /\ SwitchedOk
    /\ displaced.replaced.kind = "dir"
    /\ displaced.at = BackupPath
    /\ Subtree(fs, BackupPath) = displaced.content
    /\ displaced.content # displaced.replaced

\* the places a game directory or its backup can be
DataPaths ==
    {DefaultMinecraftPath, expandPath(AltMinecraftPath),
     DefaultBackupPath, expandPath(AltBackupPath)}

\* C5: what the user's game directory held before the first switch is still
\* on disk, at a live path or in a backup slot, after any sequence of calls.
C5_OriginalPreserved ==
    orig.kind = "dir" => \E p \in DataPaths : Subtree(fs, p) = orig

\* C6: after a run of successful switchTo calls that started from a real
\* live directory, one restoreDefault() makes the live path a real directory
\* with exactly the content it had before the run.
C6_OneRestoreRecovers ==
    chain.state = "restored" =>
        /\ IsRealDir(fs, MinecraftPath)
        /\ Subtree(fs, MinecraftPath) = chain.start

C6_Witness ==
    /\ chain.state = "restored"
    /\ chain.hops = 2
    /\ Subtree(fs, MinecraftPath) = chain.start

\* C7: list() never returns more than one entry with isActive = true.
C7_AtMostOneActive ==
    Cardinality({i \in DOMAIN Listed : Listed[i].IsActive}) <= 1

C7_Witness ==
    /\ Len(Listed) >= 2
    /\ \E i \in DOMAIN Listed : Listed[i].IsActive

\* C8: after a successful switchTo(name), list() marks the entry named name
\* active and every other entry inactive.
C8_ListMarksSwitched ==
    SwitchedOk =>
        /\ \E i \in DOMAIN Listed : Listed[i].Name = last.name
        /\ \A i \in DOMAIN Listed :
              Listed[i].IsActive <=> (Listed[i].Name = last.name)

\* C9 as stated: at the end of the scenario the live path is a symlink to
\* vanilla and the backup made by the switch to modded is gone from the
\* backup slot.
C9_ScenarioAsStated ==
    (scen.step = 4 /\ scen.backup.kind = "dir") =>
        /\ LiveLinksTo(Vanilla)
        /\ Subtree(fs, BackupPath) # scen.backup

\* C9 amended: at the end of the scenario the live path is a symlink to
\* vanilla and the backup made by the switch to modded is still in the
\* backup slot, unchanged.
C9_Scenario ==
    scen.step = 4 =>
        /\ LiveLinksTo(Vanilla)
        /\ Subtree(fs, BackupPath) = scen.backup

C9_Witness ==
    /\ scen.step = 4
    /\ scen.backup.kind = "dir"
    /\ Active = Vanilla

\* C10: after a successful restoreDefault() the live path is no symlink and
\* activeInstanceName() is "default"; a backup that existed is now the live
\* directory and the backup slot is absent; with no backup and a symlink at
\* the live path, the live path is absent afterwards.
C10_RestorePostcondition ==
    [][(last'.op = "restore" /\ last'.err = "none") =>
          /\ ~IsSymlink(fs', MinecraftPath')
          /\ GetActiveInstance(fs', MinecraftPath') = DefaultName
          /\ Lexists(fs, BackupPath) =>
                /\ Subtree(fs', MinecraftPath') = Subtree(fs, BackupPath)
                /\ ~Lexists(fs', BackupPath')
          /\ (~Lexists(fs, BackupPath) /\ IsSymlink(fs, MinecraftPath)) =>
                ~Lexists(fs', MinecraftPath')]_vars

C10_Witness ==
    /\ RestoredOk
    /\ displaced.content.kind = "dir"
    /\ displaced.at = BackupPath
    /\ Subtree(fs, MinecraftPath) = displaced.content
    /\ ~Lexists(fs, BackupPath)

CreatedOk == last.op = "create" /\ last.err = "none"

\* C11: restoreDefault() is idempotent: in every state reached by a
\* successful restoreDefault(), a second restoreDefault() succeeds and
\* changes nothing on disk (live path, backup slot and instances alike).
C11_RestoreIdempotent ==
    RestoredOk => RestoreDefault(fs, MinecraftPath, BackupPath) = Ok(fs)

\* a restoreDefault() that put a backup back on the live path has succeeded
C11_Witness ==
    RestoredOk /\ pre.state = "restored" /\ IsRealDir(fs, MinecraftPath)
    /\ pre.backup.kind = "absent" /\ ~Lexists(fs, BackupPath)

\* C12: activeInstanceName() returns the sentinel "default" exactly when the
\* live path is not a symbolic link, and the base name of the link target
\* when it is one.
C12_SentinelIffNoLink ==
    /\ (Active = DefaultName) <=> ~IsSymlink(fs, MinecraftPath)
    /\ IsSymlink(fs, MinecraftPath) =>
          Active = Base(NodeAt(fs, MinecraftPath).target)

\* C13: switchTo("") fails with EmptyNameError and switchTo(name) for a name
\* with no instance directory fails with NotFoundError, and in both cases
\* nothing on disk changes.
C13_SwitchRejectsBadName ==
    [][last'.op = "switch" =>
         /\ last'.name = EmptyName => last'.err = "empty" /\ fs' = fs
         /\ (last'.name # EmptyName
             /\ ~StatExists(fs, Join(InstancesPath, last'.name))) =>
                last'.err = "notfound" /\ fs' = fs]_vars

\* C14: when symlink creation fails in switchTo after a real live directory
\* was renamed to the backup slot, switchTo returns an error, the live path
\* is absent and the backup slot holds exactly the displaced content.
C14_FailedSymlinkLeavesNoLive ==
    [][(last'.op = "switch" /\ nFail' # nFail /\ IsRealDir(fs, MinecraftPath))
       => /\ last'.err # "none"
          /\ ~Lexists(fs', MinecraftPath)
          /\ Subtree(fs', BackupPath) = Subtree(fs, MinecraftPath)]_vars

\* a switchTo has failed at the symlink with the game directory displaced
C14_Witness ==
    /\ last.op = "switch" /\ last.err = "io" /\ nFail > 0
    /\ ~Lexists(fs, MinecraftPath)
    /\ displaced.content.kind = "dir"
    /\ Subtree(fs, BackupPath) = displaced.content

\* the entries of a list() result that carry the name
EntriesNamed(entries, name) ==
    {i \in 1..Len(entries) : entries[i].Name = name}

\* C16: for every non-empty name not yet present, after a successful
\* create(name) list() contains exactly one entry whose name equals name.
C16_CreatedIsListedOnce ==
    CreatedOk => Cardinality(EntriesNamed(Listed, last.name)) = 1

\* C17: an instance that was created and never switched to is not marked
\* active by list(), whatever its name: an entry is marked active only when
\* the live path is a symlink to that instance, so that in the default state
\* no entry is marked active.
C17_ActiveOnlyIfLinked ==
    \A i \in 1..Len(Listed) :
        Listed[i].IsActive =>
            /\ IsSymlink(fs, MinecraftPath)
            /\ NodeAt(fs, MinecraftPath).target = Listed[i].Path

\* C18 as stated: immediately after a successful create(name) the counts of
\* the instance in list() are all zero and inspect(name) returns three empty
\* lists, whatever the live path was at creation time.
C18_FreshCountsZeroAsStated ==
    CreatedOk =>
        LET info == GetInstanceInfo(fs, InstancesPath, last.name)
        IN /\ info.err = "none"
           /\ info.ModsDir = <<>> /\ info.ConfigsDir = <<>>
           /\ info.SavesDir = <<>>
           /\ \A i \in EntriesNamed(Listed, last.name) :
                 /\ Listed[i].ModCount = 0
                 /\ Listed[i].ConfigCount = 0
                 /\ Listed[i].SaveCount = 0

\* the names of a listing that the seeding copies
Copied(names) == SelectSeq(names, LAMBDA s : s \notin SkipSegs)

\* C18: immediately after a successful create(name), inspect(name) returns
\* the names the seeding copied from the seed source (the live directory, or
\* the target of the live symlink): its jar files of mods and its files of
\* config, except the skipped clutter files, and its directories of saves;
\* the counts of a list() entry of that name are the lengths of these lists.
\* All are zero when the live path is absent or the source holds none.
C18_FreshCounts ==
    [][(last'.op = "create" /\ last'.err = "none") =>
         LET src == IF IsSymlink(fs, MinecraftPath)
                    THEN NodeAt(fs, MinecraftPath).target
                    ELSE MinecraftPath
             mods == Copied(getJarFiles(fs, Join(src, <<"mods">>)))
             configs == Copied(getConfigFiles(fs, Join(src, <<"config">>)))
             saves == getDirectoryNames(fs, Join(src, <<"saves">>))
             info == GetInstanceInfo(fs', InstancesPath', last'.name)
             entries == ListInstances(fs', InstancesPath', MinecraftPath')
         IN /\ info.err = "none"
            /\ info.ModsDir = mods
            /\ info.ConfigsDir = configs
            /\ info.SavesDir = saves
            /\ \A i \in EntriesNamed(entries, last'.name) :
                  /\ entries[i].ModCount = Len(mods)
                  /\ entries[i].ConfigCount = Len(configs)
                  /\ entries[i].SaveCount = Len(saves)]_vars

\* an instance seeded from a game directory with mods, config files and
\* saves has just been created and is listed
C18_Witness ==
    /\ CreatedOk
    /\ EntriesNamed(Listed, last.name) # {}
    /\ \A i \in EntriesNamed(Listed, last.name) :
          /\ Listed[i].ModCount = 1
          /\ Listed[i].ConfigCount = 1
          /\ Listed[i].SaveCount = 1

\* C19: after every create(name) that returns success, the instance
\* directory contains the five subdirectories mods, config, saves,
\* resourcepacks and shaderpacks, whether seeding copied them, did not
\* produce them, or was skipped.
C19_EssentialDirsExist ==
    CreatedOk =>
        \A k \in 1..Len(essentialDirs) :
            IsRealDir(fs, Join(Join(InstancesPath, last.name),
                               <<essentialDirs[k]>>))

\* a create has succeeded with no live path to seed from
C19_Witness ==
    /\ CreatedOk /\ ~Lexists(fs, MinecraftPath)
    /\ IsRealDir(fs, Join(Join(InstancesPath, last.name), <<"shaderpacks">>))

\* C20: create("") fails with EmptyNameError and create(name) when
\* instancesPath/name already exists fails with AlreadyExistsError; in both
\* cases nothing on disk changes.
C20_CreateRejects ==
    [][last'.op = "create" =>
         /\ last'.name = EmptyName => last'.err = "empty" /\ fs' = fs
         /\ (last'.name # EmptyName
             /\ StatExists(fs, Join(InstancesPath, last'.name))) =>
                last'.err = "exists" /\ fs' = fs]_vars

\* a second create of an existing instance has been refused
C20_Witness ==
    /\ last.op = "create" /\ last.err = "exists"
    /\ IsRealDir(fs, Join(InstancesPath, last.name))

\* the invocations that were under way have all returned
RaceOver == Quiet /\ sw.calls > 0
\* the directory that was at the live path when the invocations began is
\* neither there nor in the backup slot
BackupCorrupted ==
    /\ sw.start.kind = "dir"
    /\ Subtree(fs, MinecraftPath) # sw.start
    /\ Subtree(fs, BackupPath) # sw.start

\* C15: two switchTo invocations running concurrently against the same live
\* path and backup slot can interleave their stat / remove-backup / rename /
\* symlink steps so that the run ends with the backup slot corrupted (the
\* displaced live content destroyed or replaced by something else); it is
\* the overlap that does it: invocations that run one after the other never
\* end so.
C15_CorruptionNeedsOverlap ==
    (RaceOver /\ BackupCorrupted) => sw.overlapped

\* two overlapping invocations have returned and the displaced directory is
\* gone: the backup slot is absent or holds a symlink
C15_Witness ==
    /\ RaceOver /\ BackupCorrupted /\ sw.overlapped
    /\ Subtree(fs, BackupPath).kind \in {"absent", "link"}

\* the entries of a tree that copyDir copies: the directories, and the files
\* whose relative path has no skipped segment
CopiedTree(t) ==
    LET keep == {r \in DOMAIN t :
                    r # <<>> /\ (t[r].kind = "dir" \/ ~SkipRel(r))}
    IN [r \in keep |-> t[r]]
\* the five empty subdirectories every instance gets
EssentialTree == [r \in {<<essentialDirs[k]>> : k \in 1..Len(essentialDirs)}
                    |-> DirNode]

C22_ListExact ==
    /\ ~Lexists(fs, InstancesPath) =>
          Listed = <<>> /\ ListInstancesErr(fs, InstancesPath) = "none"
    /\ IsRealDir(fs, InstancesPath) =>
          /\ ListInstancesErr(fs, InstancesPath) = "none"
          /\ {Listed[i].Name : i \in 1..Len(Listed)}
               = {<<q[Len(q)]>> : q \in {q \in DOMAIN fs :
                     Parent(q) = InstancesPath /\ fs[q].kind = "dir"}}
    /\ \A i, j \in 1..Len(Listed) :
          i < j => SegRank(Listed[i].Name[1]) < SegRank(Listed[j].Name[1])
    /\ \A i \in 1..Len(Listed) :
          Listed[i].IsActive = (Listed[i].Name = Active)

\* two instances are listed, one of them active, beside a stray file in the
\* instances root
C22_Witness ==
    /\ Len(Listed) = 2
    /\ Lexists(fs, Join(InstancesPath, <<".DS_Store">>))
    /\ \E i \in 1..2 : Listed[i].IsActive /\ LiveLinksTo(Listed[i].Name)

\* a list of names in strictly ascending order
Ascending(names) ==
    \A i, j \in 1..Len(names) : i < j => SegRank(names[i]) < SegRank(names[j])

\* C23: inspect(name) fails with NotFoundError when the instance directory
\* does not exist; otherwise it returns three name lists sorted ascending
\* for mods, config and saves, a missing subdirectory yielding an empty list
\* and never an error.
C23_InspectContract ==
    \A name \in EdgeNames \ {EmptyName} :
        LET instancePath == Join(InstancesPath, name)
            info == GetInstanceInfo(fs, InstancesPath, name)
        IN /\ ~StatExists(fs, instancePath) => info.err = "notfound"
           /\ StatExists(fs, instancePath) =>
                 /\ info.err = "none"
                 /\ Ascending(info.ModsDir) /\ Ascending(info.ConfigsDir)
                 /\ Ascending(info.SavesDir)
                 /\ ~Lexists(fs, Join(instancePath, <<"mods">>)) =>
                       info.ModsDir = <<>>
                 /\ ~Lexists(fs, Join(instancePath, <<"config">>)) =>
                       info.ConfigsDir = <<>>
                 /\ ~Lexists(fs, Join(instancePath, <<"saves">>)) =>
                       info.SavesDir = <<>>

\* the entries of the directory dir on disk that are directories (isDir) or
\* are not
EntriesOf(dir, isDir) ==
    {q \in DOMAIN fs : Parent(q) = dir /\ (fs[q].kind = "dir") = isDir}

\* C24: for every instance, list() reports modCount = number of
\* non-directory entries of mods/ whose name ends in .jar, configCount =
\* number of non-directory entries of config/, saveCount = number of
\* directory entries of saves/ (a plain file in saves/ is not counted), each
\* 0 when the subdirectory is missing; and the three counts equal the
\* lengths of the three lists inspect(name) returns for the instance.
C24_CountsMatch ==
    \A i \in 1..Len(Listed) :
        LET e == Listed[i]
            info == GetInstanceInfo(fs, InstancesPath, e.Name)
        IN /\ e.ModCount =
                Cardinality({q \in EntriesOf(Join(e.Path, <<"mods">>), FALSE) :
                                q[Len(q)] \in JarSegs})
           /\ e.ConfigCount =
                Cardinality(EntriesOf(Join(e.Path, <<"config">>), FALSE))
           /\ e.SaveCount =
                Cardinality(EntriesOf(Join(e.Path, <<"saves">>), TRUE))
           /\ info.err = "none"
           /\ e.ModCount = Len(info.ModsDir)
           /\ e.ConfigCount = Len(info.ConfigsDir)
           /\ e.SaveCount = Len(info.SavesDir)

\* a listed instance has a mod beside a file that is no jar, and a save
\* beside a plain file in saves/
C24_Witness ==
    \E i \in 1..Len(Listed) :
        /\ Listed[i].ModCount = 1 /\ Listed[i].SaveCount = 1
        /\ Lexists(fs, Join(Listed[i].Path, <<"mods", "readme.txt">>))
        /\ Lexists(fs, Join(Listed[i].Path, <<"saves", "note.txt">>))

ConfiguredOk == last.op = "config" /\ last.err = "none"
\* what a Manager constructed now from the configuration file reports
Fresh == NewManager(fs, configFile)
\* the three paths of a Manager: instances root, live path, backup slot
Paths(ip, mp, bp) == <<ip, mp, bp>>
\* a path as a fresh load reports it when the file holds p
Reloaded(p, default) == IF p = EmptyPath THEN default ELSE p

\* C25 as stated: for every recognized key and every path value, after a
\* successful updateConfigValue(key, value) a freshly constructed manager
\* reports for that key the given value with a leading ~ expanded, not a
\* re-derived default, and reports the other two paths unchanged.
C25_ReloadAsStated ==
    ConfiguredOk =>
        /\ Fresh.err = "none"
        /\ Paths(Fresh.ip, Fresh.mp, Fresh.bp)
             = Paths(InstancesPath, MinecraftPath, BackupPath)
        /\ expandPath(last.arg)
             \in {InstancesPath, MinecraftPath, BackupPath}

\* C25: for every recognized key and every non-empty path value, after a
\* successful updateConfigValue(key, value) a freshly constructed manager
\* reports for that key the given value with a leading ~ expanded, not a
\* re-derived default; for the empty value it reports the default of the
\* key.  It reports the other two paths as the updating manager held them,
\* with the default in place of one that was empty.
C25_Reload ==
    ConfiguredOk =>
        /\ Fresh.err = "none"
        /\ Paths(Fresh.ip, Fresh.mp, Fresh.bp)
             = Paths(Reloaded(InstancesPath, DefaultInstancesPath),
                     Reloaded(MinecraftPath, DefaultMinecraftPath),
                     Reloaded(BackupPath, DefaultBackupPath))
        /\ last.name[1] \in MinecraftKeys =>
              MinecraftPath = expandPath(last.arg)
        /\ last.name[1] \in InstancesKeys =>
              InstancesPath = expandPath(last.arg)
        /\ last.name[1] \in BackupKeys => BackupPath = expandPath(last.arg)

\* a backup path typed with ~ has been saved, and a fresh manager reports
\* it under the home directory
C25_Witness ==
    /\ ConfiguredOk /\ last.name[1] \in BackupKeys
    /\ last.arg = AltBackupPath
    /\ Fresh.bp = Join(HomeDir, <<"bk2">>)
    /\ Fresh.bp # DefaultBackupPath

\* C26: updateConfigValue with a key outside the recognized set returns
\* UnknownConfigKeyError and changes neither the in-memory paths nor the
\* persisted configuration file.
C26_UnknownKeyRejected ==
    [][(last'.op = "config"
        /\ last'.name[1] \notin {"minecraft-path", "minecraft-dir",
              "minecraft", "instances-path", "instances-dir", "instances",
              "backup-path", "backup-dir", "backup"})
       => /\ last'.err = "unknownkey"
          /\ Paths(InstancesPath', MinecraftPath', BackupPath')
               = Paths(InstancesPath, MinecraftPath, BackupPath)
          /\ configFile' = configFile
          /\ fs' = fs]_vars

\* an unknown key has been refused by a Manager whose paths are not the
\* defaults
C26_Witness ==
    /\ last.op = "config" /\ last.err = "unknownkey"
    /\ last.name = <<"theme">>
    /\ MinecraftPath # DefaultMinecraftPath

ConfirmedCall(call) ==
    \/ /\ call.op = "DeleteInstance"
       /\ call.via.state = "stateConfirmDelete"
       /\ call.via.key \in {"y", "Y"}
    \/ /\ call.op = "RestoreDefault"
       /\ call.via.state = "stateConfirmRestore"
       /\ call.via.key \in {"r", "enter"}
    \/ /\ call.op = "DeleteInstance"
       /\ call.via.state = "deleteCmd"
       /\ call.via.key \in {<<"y">>, <<"Y">>}

\* C28: destructive operations happen only after explicit confirmation.  In
\* the interface, DeleteInstance is called only for a deleteMsg produced by
\* y or Y on the delete confirmation screen and RestoreDefault only for a
\* restoreMsg produced by r or enter on the restore confirmation screen; the
\* delete command calls DeleteInstance only after the user answers y or Y,
\* and any other answer deletes nothing; no instance directory disappears
\* in a step without such a call.
C28_ConfirmedOnly ==
    [][/\ tui'.call.op # "none" => ConfirmedCall(tui'.call)
       /\ (tui'.call.via.state = "deleteCmd"
            /\ tui'.call.via.key \notin {<<"y">>, <<"Y">>}) => fs' = fs
       /\ \A name \in {<<n>> : n \in Children(fs, InstancesPath)} :
             /\ Lexists(fs, Join(InstancesPath, name))
             /\ ~Lexists(fs', Join(InstancesPath, name))
             => /\ tui'.call.op = "DeleteInstance"
                /\ tui'.call.name = name
                /\ ConfirmedCall(tui'.call)]_vars

\* C29: switchTo(name) invoked while the live path is a symlink only
\* replaces the symlink: the existence and the content of the backup slot
\* are the same before and after the call, whatever its result.
C29_LinkSwitchKeepsBackup ==
    [][(last'.op = "switch" /\ IsSymlink(fs, MinecraftPath)) =>
          Subtree(fs', BackupPath') = Subtree(fs, BackupPath)]_vars

\* a second switchTo in a row has succeeded and the backup slot still holds
\* the directory the first one displaced
C29_Witness ==
    /\ SwitchedOk /\ chain.state = "switched" /\ chain.hops = 2
    /\ chain.start.kind = "dir"
    /\ Subtree(fs, BackupPath) = chain.start
    /\ IsSymlink(fs, MinecraftPath)

\* C30: at every intermediate point of a single switchTo (between any two
\* of its filesystem steps, where an interrupted process would leave the
\* disk), the content the real live directory had before the call exists in
\* full either at the live path or at the backup slot.
C30_ContentNeverLost ==
    (sw.calls > 0 /\ ~sw.overlapped /\ sw.start.kind = "dir") =>
        \/ Subtree(fs, MinecraftPath) = sw.start
        \/ Subtree(fs, BackupPath) = sw.start

\* a single switchTo is between the rename and the symlink: no live path,
\* the directory in the backup slot
C30_Witness ==
    /\ ~sw.overlapped /\ sw.start.kind = "dir"
    /\ \E p \in Procs : sw.pc[p] = "symlink"
    /\ ~Lexists(fs, MinecraftPath)
    /\ Subtree(fs, BackupPath) = sw.start

\* the latest call was a switchTo that failed with no live path left behind,
\* and the backup slot holds the real directory a switchTo displaced
FailedAtLink ==
    /\ last.op = "switch" /\ last.err = "io" /\ nFail > 0
    /\ ~Lexists(fs, MinecraftPath)
    /\ displaced.content.kind = "dir"
    /\ displaced.at = BackupPath
    /\ Subtree(fs, BackupPath) = displaced.content

\* C31: after a switchTo that displaced a real live directory and then
\* failed at symlink creation, a retried switchTo(name) whose symlink can be
\* created succeeds, links the live path to the instance and leaves the
\* backup slot as it was; a restoreDefault() issued instead succeeds and
\* the live path is a real directory with the content from before the
\* switch.
C31_StepsRetryable ==
    [][FailedAtLink =>
          /\ (last'.op = "switch" /\ last'.name = last.name
                  /\ nFail' = nFail) =>
                /\ last'.err = "none"
                /\ IsSymlink(fs', MinecraftPath)
                /\ NodeAt(fs', MinecraftPath).target
                       = Join(InstancesPath, last.name)
                /\ Subtree(fs', BackupPath) = displaced.content
          /\ last'.op = "restore" =>
                /\ last'.err = "none"
                /\ IsRealDir(fs', MinecraftPath)
                /\ Subtree(fs', MinecraftPath) = displaced.content
                /\ ~Lexists(fs', BackupPath)]_vars

\* the retry after a failed symlink has succeeded (it found no live path):
\* the live path is a symlink and the backup slot still holds the displaced
\* directory
C31_Witness ==
    /\ last.op = "switch" /\ last.err = "none" /\ nFail > 0
    /\ IsSymlink(fs, MinecraftPath)
    /\ displaced.content.kind = "dir"
    /\ Subtree(fs, BackupPath) = displaced.content
    /\ chain = NoChain

\* C32: after any sequence of create, switchTo, restoreDefault, delete and
\* updateConfigValue calls, whenever the configured live path is a symlink,
\* the directory it points at exists.
C32_NeverBroken ==
    IsSymlink(fs, MinecraftPath) =>
        StatIsDir(fs, NodeAt(fs, MinecraftPath).target)

\* C33: switchTo and restoreDefault never create, delete or modify an
\* instance: the tree below the instances root (the set of instance
\* directories and the file tree of each) is the same before and after each
\* call, whether the call succeeds or fails.
C33_InstancesUntouched ==
    [][last'.op \in {"switch", "restore"} =>
          Subtree(fs', InstancesPath') = Subtree(fs, InstancesPath)]_vars

\* a switchTo away from an active instance has succeeded and both instances
\* are on disk, the one left behind with the files it was seeded with
C33_Witness ==
    /\ SwitchedOk /\ chain.state = "switched" /\ chain.hops = 2
    /\ Cardinality(Children(fs, InstancesPath)) = 2
    /\ \E n \in Children(fs, InstancesPath) :
          /\ <<n>> # last.name
          /\ Lexists(fs, Join(InstancesPath, <<n, "mods", "x.jar">>))

\* C34: in every reachable state, also after updateConfigValue changed the
\* instances path or the live path, whenever list() marks an entry active
\* the live path is a symlink whose target is that entry's directory.
C34_FlagAgreesWithDisk ==
    \A i \in DOMAIN Listed :
        Listed[i].IsActive => LiveLinksTo(Listed[i].Name)

\* C35: an updateConfigValue call that returns an error leaves the
\* in-memory instances path, live path and backup path that later
\* operations use equal to their values before the call.
C35_FailedUpdateKeepsPaths ==
    [][(last'.op = "config" /\ last'.err # "none") =>
          /\ InstancesPath' = InstancesPath
          /\ MinecraftPath' = MinecraftPath
          /\ BackupPath' = BackupPath]_vars

\* C36: under every interleaving of key messages with the messages of the
\* commands in flight, a deleteMsg handled while its instance is active (the
\* live path is a symlink to the instance directory) deletes nothing, also
\* when the deletion was requested and confirmed against a list that still
\* showed the instance as inactive.
C36_ActiveSurvivesStaleDelete ==
    [][(/\ tui'.call.op = "DeleteInstance"
        /\ tui'.call.via.state = "stateConfirmDelete"
        /\ LiveLinksTo(tui'.call.name)) =>
          /\ fs' = fs
          /\ tui'.err = "active"]_vars

\* a deleteMsg was handled and refused while the instance was active and
\* the list on screen still showed it as inactive
C36_Witness ==
    /\ tui.call.op = "DeleteInstance"
    /\ tui.call.via.state = "stateConfirmDelete"
    /\ LiveLinksTo(tui.call.name)
    /\ StatIsDir(fs, Join(InstancesPath, tui.call.name))
    /\ tui.err = "active"
    /\ \E i \in DOMAIN tui.instances :
          /\ tui.instances[i].Name = tui.call.name
          /\ ~tui.instances[i].IsActive

\* C37: once the restoreMsg of a confirmed restore (r or enter on the
\* restore confirmation screen) has been handled the interface is in
\* stateList, as it is once a deleteMsg that deleted an instance or a
\* createMsg that created one has been handled.
C37_BackToListAfterRestore ==
    [][/\ (tui'.call.op = "RestoreDefault"
              /\ tui'.call.via.state = "stateConfirmRestore")
            => tui'.state = "stateList"
       /\ (tui'.call.op = "DeleteInstance"
              /\ tui'.call.via.state = "stateConfirmDelete" /\ fs' # fs)
            => tui'.state = "stateList"
       /\ nCreate' # nCreate => tui'.state = "stateList"]_vars

\* C38: when NewManager failed at the start of the interface (nil manager,
\* err set), no message handler calls a method on the nil manager: the
\* refreshMsg issued by Init leaves the error displayed and the program
\* running.
C38_NilManagerNeverUsed ==
    tui.manager = "nil" => (~tui.crashed /\ tui.err # "none")

\* the createMsg commands in flight
CreatesInFlight(m) ==
    Cardinality({i \in DOMAIN m.pending : m.pending[i].type = "createMsg"})

\* C39: on the create screen the only key that leaves stateCreate without
\* creating an instance is esc; every other key, backspace included, keeps
\* the interface in stateCreate and is applied to the name input (a
\* character is appended, backspace removes the last one); enter issues a
\* createMsg only when the trimmed name is not empty.
C39_OnlyEscLeavesCreate ==
    [][tui'.call.via.state = "stateCreate" =>
          LET key == tui'.call.via.key
              text == tui.textInput
          IN /\ tui'.state # "stateCreate" => key = "esc"
             /\ key \in Runes => tui'.textInput = Append(text, key)
             /\ key = "backspace" =>
                   tui'.textInput = SubSeq(text, 1, Len(text) - 1)
             /\ key # "enter" => CreatesInFlight(tui') = CreatesInFlight(tui)
             /\ key = "enter" =>
                   (CreatesInFlight(tui') = CreatesInFlight(tui) + 1
                      <=> TrimSpace(text) # <<>>)]_vars

====
